---- MODULE Spec2Model ----
(***************************************************************************)
(* Desired-state synthesis of the etcd StatefulSet                         *)
(* (internal/controller/factory/statefulset.go).                           *)
(*                                                                         *)
(* The state is the EtcdCluster object handed to CreateOrUpdateStatefulSet *)
(* (the function writes to it), the locals the last pass built             *)
(* (basePodSpec, statefulSet) and the pass's result.  One action models    *)
(* one whole pass; the other actions are the owner of the EtcdCluster      *)
(* editing it between passes.                                              *)
(*                                                                         *)
(* Go values: a pointer or a map that may be nil is Nil or Some(v); a      *)
(* slice is [nil |-> BOOLEAN, elems |-> sequence], so that a nil slice and *)
(* an empty one are different values; a map is a function on its keys.     *)
(***************************************************************************)
EXTENDS Integers, Sequences, FiniteSets, TLC

VARIABLES cluster, base, sts, err, first

vars == <<cluster, base, sts, err, first>>

---------------------------------------------------------------------------
(* Bounds of the model *)

\* spec.replicas ranges over 0..MaxReplicas
MaxReplicas == 1

---------------------------------------------------------------------------
(* Go values *)

Nil == <<>>
Some(v) == <<v>>

NilSlice == [nil |-> TRUE, elems |-> <<>>]
Slice(s) == [nil |-> FALSE, elems |-> s]

\* for key, value := range over; dst[key] = value
MapSet(dst, over) ==
    [k \in DOMAIN dst \cup DOMAIN over |-> IF k \in DOMAIN over THEN over[k] ELSE dst[k]]

Range(s) == {s[i] : i \in DOMAIN s}

Names(s) == [i \in DOMAIN s |-> s[i].name]

\* every order in which a Go map of these keys can be ranged over
Orders(keys) ==
    {o \in [1..Cardinality(keys) -> keys] : \A i, j \in DOMAIN o : i # j => o[i] # o[j]}

---------------------------------------------------------------------------
(* The EtcdCluster objects of the model *)

\* metadata.name cannot change: every behaviour is about one cluster
ClusterNames == {"test"}
Namespace == "default"

OptionNames == {"peer-auto-tls", "quota-backend-bytes"}
OptionValue(n) == IF n = "peer-auto-tls" THEN "" ELSE "8"
OptionMaps == {[n \in S |-> OptionValue(n)] : S \in SUBSET OptionNames}

\* Storage.EmptyDir is a pointer, Storage.VolumeClaimTemplate a struct: unset
\* is its zero value.  The storage policies: none set, ephemeral, persistent.
ZeroVolumeClaimTemplate == [labels |-> Nil, annotations |-> Nil, spec |-> "", status |-> ""]
Storages ==
    {[emptyDir |-> Nil, volumeClaimTemplate |-> ZeroVolumeClaimTemplate],
     [emptyDir |-> Some([medium |-> "Memory"]), volumeClaimTemplate |-> ZeroVolumeClaimTemplate],
     [emptyDir |-> Nil,
      volumeClaimTemplate |-> [ZeroVolumeClaimTemplate EXCEPT !.spec = "1Gi"]]}

TLSFields == {"peerTrustedCASecret", "peerSecret", "serverSecret",
              "clientTrustedCASecret", "clientSecret"}
SecretName(f) ==
    CASE f = "peerTrustedCASecret" -> "ca-peer"
      [] f = "peerSecret" -> "p"
      [] f = "serverSecret" -> "s"
      [] f = "clientTrustedCASecret" -> "c"
      [] f = "clientSecret" -> "client"
TLSs == {[f \in TLSFields |-> IF f \in S THEN SecretName(f) ELSE ""] : S \in SUBSET TLSFields}
Securities == {Nil} \cup {Some([tls |-> t]) : t \in TLSs}

InstanceKey == "app.kubernetes.io/instance"
PodLabelMaps ==
    {Nil,
     Some([k \in {"team"} |-> "storage"]),
     Some([k \in {InstanceKey} |-> "other"])}
PodAnnotationMaps == {Nil, Some([k \in {"note"} |-> "n"])}

Sidecar == [name |-> "sidecar", image |-> "busybox"]
PodContainers == {NilSlice, Slice(<<Sidecar>>)}

Clusters ==
    [name : ClusterNames,
     namespace : {Namespace},
     replicas : 0..MaxReplicas,
     options : OptionMaps,
     storage : Storages,
     security : Securities,
     podTemplate : [labels : PodLabelMaps,
                    annotations : PodAnnotationMaps,
                    spec : [containers : PodContainers]]]

---------------------------------------------------------------------------
(* Helpers of the factory package that the synthesis calls *)

\* NewLabelsBuilder().WithName().WithInstance(name).WithManagedBy()
NewLabels(name) ==
    [k \in {"app.kubernetes.io/name", InstanceKey, "app.kubernetes.io/managed-by"} |->
        CASE k = "app.kubernetes.io/name" -> "etcd"
          [] k = InstanceKey -> name
          [] k = "app.kubernetes.io/managed-by" -> "etcd-operator"]

GetPVCName(c) == c.name \o "-data"

GetClusterStateConfigMapName(c) == c.name \o "-cluster-state"

DefaultEtcdImage == "quay.io/coreos/etcd"

etcdContainerName == "etcd"

---------------------------------------------------------------------------
(* The conditions on the security policy *)

PeerSecretSet(c) == c.security # Nil /\ c.security[1].tls.peerSecret # ""

ServerSecretSet(c) == c.security # Nil /\ c.security[1].tls.serverSecret # ""

ClientSecretSet(c) == c.security # Nil /\ c.security[1].tls.clientSecret # ""

---------------------------------------------------------------------------
(* generateVolumes *)

SecretVolume(name, secretName) ==
    [name |-> name, source |-> [kind |-> "Secret", ref |-> secretName]]

dataVolumeSource(c) ==
    IF c.storage.emptyDir # Nil
    THEN [kind |-> "EmptyDir", ref |-> c.storage.emptyDir[1].medium]
    ELSE [kind |-> "PersistentVolumeClaim", ref |-> GetPVCName(c)]

PeerVolumes(c) ==
    IF PeerSecretSet(c)
    THEN <<SecretVolume("peer-trusted-ca-certificate", c.security[1].tls.peerTrustedCASecret),
           SecretVolume("peer-certificate", c.security[1].tls.peerSecret)>>
    ELSE <<>>

ServerVolumes(c) ==
    IF ServerSecretSet(c)
    THEN <<SecretVolume("server-certificate", c.security[1].tls.serverSecret)>>
    ELSE <<>>

ClientVolumes(c) ==
    IF ClientSecretSet(c)
    THEN <<SecretVolume("client-trusted-ca-certificate",
                        c.security[1].tls.clientTrustedCASecret)>>
    ELSE <<>>

generateVolumes(c) ==
    <<[name |-> "data", source |-> dataVolumeSource(c)]>>
        \o PeerVolumes(c) \o ServerVolumes(c) \o ClientVolumes(c)

---------------------------------------------------------------------------
(* generateVolumeMounts *)

Mount(name, readOnly, path) == [name |-> name, readOnly |-> readOnly, mountPath |-> path]

PeerMounts(c) ==
    IF PeerSecretSet(c)
    THEN <<Mount("peer-trusted-ca-certificate", TRUE, "/etc/etcd/pki/peer/ca"),
           Mount("peer-certificate", TRUE, "/etc/etcd/pki/peer/cert")>>
    ELSE <<>>

ServerMounts(c) ==
    IF ServerSecretSet(c)
    THEN <<Mount("server-certificate", TRUE, "/etc/etcd/pki/server/cert")>>
    ELSE <<>>

\* mutant: the mount follows the CA secret the volume is backed by
ClientMountsByCASecret(c) ==
    IF c.security # Nil /\ c.security[1].tls.clientTrustedCASecret # ""
    THEN <<Mount("client-trusted-ca-certificate", TRUE, "/etc/etcd/pki/client/ca")>>
    ELSE <<>>

ClientMounts(c) ==
    IF ClientSecretSet(c)
    THEN <<Mount("client-trusted-ca-certificate", TRUE, "/etc/etcd/pki/client/ca")>>
    ELSE <<>>

generateVolumeMounts(c) ==
    <<Mount("data", FALSE, "/var/run/etcd")>>
        \o PeerMounts(c) \o ServerMounts(c) \o ClientMounts(c)

---------------------------------------------------------------------------
(* generateEtcdArgs.  order is the order in which this run ranges over the *)
(* options map: Go fixes none, so it is an input of the call.              *)

generateEtcdCommand == <<"etcd">>

OptionArg(name, value) ==
    IF value = "" THEN "--" \o name ELSE ("--" \o name) \o "=" \o value

OptionArgs(c, order) == [i \in DOMAIN order |-> OptionArg(order[i], c.options[order[i]])]

\* mutant: the explicit peer flags are appended to the default, not put in its place
peerTlsSettingsAppended(c) ==
    <<"--peer-auto-tls">> \o
    (IF PeerSecretSet(c)
     THEN <<"--peer-trusted-ca-file=/etc/etcd/pki/peer/ca/ca.crt",
            "--peer-cert-file=/etc/etcd/pki/peer/cert/tls.crt",
            "--peer-key-file=/etc/etcd/pki/peer/cert/tls.key",
            "--peer-client-cert-auth">>
     ELSE <<>>)

peerTlsSettings(c) ==
    IF PeerSecretSet(c)
    THEN <<"--peer-trusted-ca-file=/etc/etcd/pki/peer/ca/ca.crt",
           "--peer-cert-file=/etc/etcd/pki/peer/cert/tls.crt",
           "--peer-key-file=/etc/etcd/pki/peer/cert/tls.key",
           "--peer-client-cert-auth">>
    ELSE <<"--peer-auto-tls">>

serverTlsSettings(c) ==
    IF ServerSecretSet(c)
    THEN <<"--cert-file=/etc/etcd/pki/server/cert/tls.crt",
           "--key-file=/etc/etcd/pki/server/cert/tls.key">>
    ELSE <<>>

serverProtocol(c) == IF ServerSecretSet(c) THEN "https" ELSE "http"

clientTlsSettings(c) ==
    IF ClientSecretSet(c)
    THEN <<"--trusted-ca-file=/etc/etcd/pki/client/ca/ca.crt",
           "--client-cert-auth">>
    ELSE <<>>

\* mutant: the listen URL is left on plaintext when the server secret is set
ListenClientArgPlain(protocol) == "--listen-client-urls=http://0.0.0.0:2379"

ListenClientArg(protocol) == "--listen-client-urls=" \o protocol \o "://0.0.0.0:2379"

AdvertiseClientArg(protocol, name) ==
    "--advertise-client-urls=" \o protocol \o "://$(POD_NAME)." \o name
        \o ".$(POD_NAMESPACE).svc:2379"

FixedArgs(c) ==
    <<"--name=$(POD_NAME)",
      "--listen-metrics-urls=http://0.0.0.0:2381",
      "--listen-peer-urls=https://0.0.0.0:2380",
      ListenClientArg(serverProtocol(c)),
      "--initial-advertise-peer-urls=https://$(POD_NAME)." \o c.name
          \o ".$(POD_NAMESPACE).svc:2380",
      "--data-dir=/var/run/etcd/default.etcd",
      AdvertiseClientArg(serverProtocol(c), c.name)>>

generateEtcdArgs(c, order) ==
    OptionArgs(c, order) \o FixedArgs(c)
        \o peerTlsSettings(c) \o serverTlsSettings(c) \o clientTlsSettings(c)

---------------------------------------------------------------------------
(* The probes and generateContainer *)

HTTPGetProbe(path) ==
    [handler |-> "HTTPGet", path |-> path, port |-> 2381, periodSeconds |-> 5]

getStartupProbe == HTTPGetProbe("/readyz?serializable=false")

getReadinessProbe == HTTPGetProbe("/readyz")

\* mutant: the liveness probe polls the readiness endpoint
getLivenessProbeReadyz == HTTPGetProbe("/readyz")

getLivenessProbe == HTTPGetProbe("/livez")

podEnv ==
    <<[name |-> "POD_NAME", fieldPath |-> "metadata.name"],
      [name |-> "POD_NAMESPACE", fieldPath |-> "metadata.namespace"]>>

generateContainer(c, order) ==
    [name |-> etcdContainerName,
     image |-> DefaultEtcdImage,
     command |-> generateEtcdCommand,
     args |-> generateEtcdArgs(c, order),
     ports |-> <<[name |-> "peer", containerPort |-> 2380],
                 [name |-> "client", containerPort |-> 2379]>>,
     envFrom |-> <<[configMapRef |-> GetClusterStateConfigMapName(c)]>>,
     startupProbe |-> getStartupProbe,
     livenessProbe |-> getLivenessProbe,
     readinessProbe |-> getReadinessProbe,
     env |-> podEnv,
     volumeMounts |-> generateVolumeMounts(c)]

---------------------------------------------------------------------------
(* k8sutils.StrategicMerge on pod specs: containers are merged by name, an *)
(* override container of a new name is appended, one of a known name is    *)
(* merged into the generated one field by field; the override of the model *)
(* carries no volumes.  A pod spec built here holds plain sequences.       *)

MergeContainers(baseCs, overCs) ==
    [i \in DOMAIN baseCs |->
        LET same == {j \in DOMAIN overCs : overCs[j].name = baseCs[i].name}
        IN  IF same = {} THEN baseCs[i]
            ELSE MapSet(baseCs[i], overCs[CHOOSE j \in same : TRUE])]
    \o SelectSeq(overCs, LAMBDA o : o.name \notin Range(Names(baseCs)))

StrategicMerge(basePodSpec, override) ==
    [containers |-> MergeContainers(basePodSpec.containers, override.containers.elems),
     volumes |-> basePodSpec.volumes]

\* ctrl.SetControllerReference(cluster, statefulSet, rscheme), when it succeeds
SetControllerReference(c, statefulSet) ==
    [statefulSet EXCEPT !.ownerReferences =
        <<[kind |-> "EtcdCluster", name |-> c.name, controller |-> TRUE]>>]

---------------------------------------------------------------------------
(* CreateOrUpdateStatefulSet *)

podMetadata(c) ==
    [labels |-> IF c.podTemplate.labels # Nil
                THEN MapSet(NewLabels(c.name), c.podTemplate.labels[1])
                ELSE NewLabels(c.name),
     annotations |-> c.podTemplate.annotations]

volumeClaimTemplates(c) ==
    <<[name |-> GetPVCName(c),
       labels |-> c.storage.volumeClaimTemplate.labels,
       annotations |-> c.storage.volumeClaimTemplate.annotations,
       spec |-> c.storage.volumeClaimTemplate.spec,
       status |-> c.storage.volumeClaimTemplate.status]>>

basePodSpec(c, order) ==
    [containers |-> <<generateContainer(c, order)>>,
     volumes |-> generateVolumes(c)]

\* if cluster.Spec.PodTemplate.Spec.Containers == nil { ... = make([]corev1.Container, 0) }
InitContainers(c) ==
    IF c.podTemplate.spec.containers.nil
    THEN [c EXCEPT !.podTemplate.spec.containers = Slice(<<>>)]
    ELSE c

\* mutant: the selector is taken from the pod template's labels
SelectorFromPodMetadata(c) == [matchLabels |-> podMetadata(c).labels]

Selector(c) == [matchLabels |-> NewLabels(c.name)]

statefulSet(c, finalPodSpec) ==
    [namespace |-> c.namespace,
     name |-> c.name,
     ownerReferences |-> <<>>,
     replicas |-> c.replicas,
     serviceName |-> c.name,
     podManagementPolicy |-> "Parallel",
     selector |-> Selector(c),
     template |-> [labels |-> podMetadata(c).labels,
                   annotations |-> podMetadata(c).annotations,
                   spec |-> finalPodSpec],
     volumeClaimTemplates |-> volumeClaimTemplates(c)]

\* the fields of a manifest that cannot change once the object exists, and
\* the replica count it was first built with
Identity(m) ==
    [name |-> m.name,
     selector |-> m.selector,
     serviceName |-> m.serviceName,
     podManagementPolicy |-> m.podManagementPolicy]

FirstOf(m) == [identity |-> Identity(m), replicas |-> m.replicas]

\* how a pass ends: the merge fails, SetControllerReference fails, the
\* reconcile step is called and fails, or it is called and succeeds
Outcomes == {"merge", "ownerref", "reconcile", "nil"}

ReconcileCalled == err \in {"reconcile", "nil"}

CreateOrUpdateStatefulSet(order, outcome) ==
    LET given == InitContainers(cluster)
        finalPodSpec == StrategicMerge(basePodSpec(cluster, order), given.podTemplate.spec)
        built == statefulSet(given, finalPodSpec)
    IN  /\ cluster' = given
        /\ base' = Some(basePodSpec(cluster, order))
        /\ err' = outcome
        /\ IF outcome = "merge"
           THEN sts' = Nil /\ first' = first
           ELSE /\ sts' = Some(IF outcome = "ownerref" THEN built
                               ELSE SetControllerReference(given, built))
                /\ first' = IF first = Nil THEN Some(FirstOf(built)) ELSE first

---------------------------------------------------------------------------
(* The owner of the EtcdCluster edits it between passes.  The locals of    *)
(* the last pass are gone by then.                                         *)

Edit(c) ==
    /\ c # cluster
    /\ cluster' = c
    /\ base' = Nil
    /\ sts' = Nil
    /\ err' = "idle"
    /\ first' = first

SetReplicas(r) == Edit([cluster EXCEPT !.replicas = r])

SetOption(n) == Edit([cluster EXCEPT !.options = MapSet(@, [k \in {n} |-> OptionValue(n)])])

DeleteOption(n) ==
    Edit([cluster EXCEPT !.options = [k \in DOMAIN @ \ {n} |-> @[k]]])

SetStorage(s) == Edit([cluster EXCEPT !.storage = s])

SetSecurity(s) == Edit([cluster EXCEPT !.security = s])

SetTLSField(f, v) ==
    /\ cluster.security # Nil
    /\ Edit([cluster EXCEPT !.security = Some([tls |-> [@[1].tls EXCEPT ![f] = v]])])

SetPodLabels(l) == Edit([cluster EXCEPT !.podTemplate.labels = l])

SetPodAnnotations(a) == Edit([cluster EXCEPT !.podTemplate.annotations = a])

SetPodContainers(cs) == Edit([cluster EXCEPT !.podTemplate.spec.containers = cs])

---------------------------------------------------------------------------

Init ==
    /\ cluster \in Clusters
    /\ base = Nil
    /\ sts = Nil
    /\ err = "idle"
    /\ first = Nil

Next ==
    \/ \E order \in Orders(DOMAIN cluster.options), outcome \in Outcomes :
          CreateOrUpdateStatefulSet(order, outcome)
    \/ \E r \in 0..MaxReplicas : SetReplicas(r)
    \/ \E n \in OptionNames : SetOption(n)
    \/ \E n \in OptionNames : DeleteOption(n)
    \/ \E s \in Storages : SetStorage(s)
    \/ \E s \in {Nil, Some([tls |-> [f \in TLSFields |-> ""]])} : SetSecurity(s)
    \/ \E f \in TLSFields : \E v \in {"", SecretName(f)} : SetTLSField(f, v)
    \/ \E l \in PodLabelMaps : SetPodLabels(l)
    \/ \E a \in PodAnnotationMaps : SetPodAnnotations(a)
    \/ \E cs \in PodContainers : SetPodContainers(cs)

Spec == Init /\ [][Next]_vars

---------------------------------------------------------------------------
(* Reading the results of the last pass *)

BaseContainer == base[1].containers[1]

BaseArgs == BaseContainer.args

BaseVolumes == base[1].volumes

BaseMounts == BaseContainer.volumeMounts

\* the arguments generated after the user flags (one argument per option)
ArgsTail == SubSeq(BaseArgs, Cardinality(DOMAIN cluster.options) + 1, Len(BaseArgs))

\* Reading a flag back from an argument string: the argument is the flag
\* alone, or the flag, "=" and a value.
ArgValues ==
    {"/etc/etcd/pki/peer/ca/ca.crt", "/etc/etcd/pki/peer/cert/tls.crt",
     "/etc/etcd/pki/peer/cert/tls.key", "/etc/etcd/pki/server/cert/tls.crt",
     "/etc/etcd/pki/server/cert/tls.key", "/etc/etcd/pki/client/ca/ca.crt",
     "/var/run/etcd/default.etcd", "$(POD_NAME)", "8"}

URLRests ==
    {"0.0.0.0:2379", "0.0.0.0:2380", "0.0.0.0:2381"}
        \cup {"$(POD_NAME)." \o n \o ".$(POD_NAMESPACE).svc:2379" : n \in ClusterNames}
        \cup {"$(POD_NAME)." \o n \o ".$(POD_NAMESPACE).svc:2380" : n \in ClusterNames}

URLValues == {s \o "://" \o r : s \in {"http", "https"}, r \in URLRests}

TailFlags ==
    {"--name", "--listen-metrics-urls", "--listen-peer-urls", "--listen-client-urls",
     "--initial-advertise-peer-urls", "--data-dir", "--advertise-client-urls",
     "--peer-auto-tls", "--peer-trusted-ca-file", "--peer-cert-file", "--peer-key-file",
     "--peer-client-cert-auth", "--cert-file", "--key-file", "--trusted-ca-file",
     "--client-cert-auth"}

\* the argument strings that give a flag
FlagForms ==
    [f \in TailFlags |-> {f} \cup {f \o "=" \o v : v \in ArgValues \cup URLValues}]

IsFlag(arg, flag) == arg \in FlagForms[flag]

HasFlag(args, flag) == \E i \in DOMAIN args : IsFlag(args[i], flag)

\* the argument strings that give a flag a URL of a scheme
SchemeForms ==
    [f \in {"--listen-client-urls", "--advertise-client-urls"} |->
        [s \in {"http", "https"} |-> {f \o "=" \o s \o "://" \o r : r \in URLRests}]]

\* the schemes of the URLs given with a flag
Schemes(args, flag) ==
    {s \in {"http", "https"} : \E i \in DOMAIN args : args[i] \in SchemeForms[flag][s]}

\* every generated argument reads back as one of the flags etcd is given
TailReadsBack == \A i \in DOMAIN ArgsTail : \E f \in TailFlags : IsFlag(ArgsTail[i], f)

PeerSecretGiven == cluster.security # Nil /\ cluster.security[1].tls.peerSecret # ""

ServerSecretGiven == cluster.security # Nil /\ cluster.security[1].tls.serverSecret # ""

ClientSecretGiven == cluster.security # Nil /\ cluster.security[1].tls.clientSecret # ""

ClientCAGiven == cluster.security # Nil /\ cluster.security[1].tls.clientTrustedCASecret # ""

---------------------------------------------------------------------------
(* C1: after every pass, the names of the volumes generateVolumes returned *)
(* and the names of the mounts generateVolumeMounts returned are the same  *)
(* sequence, and it starts with "data".                                    *)
C1_VolumesMatchMounts ==
    base # Nil =>
        /\ Len(BaseVolumes) = Len(BaseMounts)
        /\ Names(BaseVolumes) = Names(BaseMounts)
        /\ BaseVolumes[1].name = "data"
        /\ BaseMounts[1].name = "data"

\* all three secrets set, persistent storage: five volumes and five mounts
C1_Witness ==
    /\ base # Nil
    /\ PeerSecretGiven /\ ServerSecretGiven /\ ClientSecretGiven
    /\ cluster.storage.emptyDir = Nil
    /\ Len(BaseVolumes) = 5
    /\ Len(BaseMounts) = 5

(* C2: every manifest a pass builds has the selector, the service name and *)
(* the pod management policy of the first manifest built for the cluster,  *)
(* whatever was edited in between.                                         *)
C2_IdentityStable ==
    (sts # Nil /\ first # Nil) => Identity(sts[1]) = first[1].identity

\* a later pass: the replica count is no longer the first one, the pod
\* template carries overriding labels and a security policy is set
C2_Witness ==
    /\ sts # Nil
    /\ first # Nil
    /\ sts[1].replicas # first[1].replicas
    /\ cluster.podTemplate.labels # Nil
    /\ cluster.security # Nil
    /\ Identity(sts[1]) = first[1].identity

(* C3: a pass that follows a pass on the unchanged EtcdCluster generates   *)
(* the same argument list, in the same order.                              *)
C3_ArgsDeterministic ==
    [][(base # Nil /\ base' # Nil /\ cluster' = cluster) => BaseArgs' = BaseArgs]_vars

ExplicitPeerFlags ==
    {"--peer-trusted-ca-file", "--peer-cert-file", "--peer-key-file", "--peer-client-cert-auth"}

(* C4: in the arguments after the user flags, --peer-auto-tls is present   *)
(* and the four explicit peer flags are absent when no peer secret is set; *)
(* the four are present and --peer-auto-tls is absent when one is set.     *)
C4_PeerTlsMode ==
    base # Nil =>
        /\ TailReadsBack
        /\ IF PeerSecretGiven
           THEN /\ \A f \in ExplicitPeerFlags : HasFlag(ArgsTail, f)
                /\ ~HasFlag(ArgsTail, "--peer-auto-tls")
           ELSE /\ HasFlag(ArgsTail, "--peer-auto-tls")
                /\ \A f \in ExplicitPeerFlags : ~HasFlag(ArgsTail, f)

\* a peer secret is set and the user flags hold --peer-auto-tls themselves
C4_Witness ==
    /\ base # Nil
    /\ PeerSecretGiven
    /\ "peer-auto-tls" \in DOMAIN cluster.options
    /\ HasFlag(ArgsTail, "--peer-client-cert-auth")

(* C5: --listen-client-urls and --advertise-client-urls have one scheme,   *)
(* the same for both: https with --cert-file, --key-file, the              *)
(* server-certificate volume and its mount when the server secret is set;  *)
(* http with none of them when it is not.                                  *)
C5_SchemeCoupling ==
    base # Nil =>
        /\ TailReadsBack
        /\ Schemes(BaseArgs, "--listen-client-urls")
              = Schemes(BaseArgs, "--advertise-client-urls")
        /\ Schemes(BaseArgs, "--listen-client-urls")
              = {IF ServerSecretGiven THEN "https" ELSE "http"}
        /\ HasFlag(ArgsTail, "--cert-file") <=> ServerSecretGiven
        /\ HasFlag(ArgsTail, "--key-file") <=> ServerSecretGiven
        /\ "server-certificate" \in Range(Names(BaseVolumes)) <=> ServerSecretGiven
        /\ "server-certificate" \in Range(Names(BaseMounts)) <=> ServerSecretGiven

\* the server secret is the only one set
C5_Witness ==
    /\ base # Nil
    /\ ServerSecretGiven /\ ~PeerSecretGiven /\ ~ClientSecretGiven
    /\ Schemes(BaseArgs, "--advertise-client-urls") = {"https"}

(* C6: the client-trusted-ca-certificate volume, its mount and the flags   *)
(* --trusted-ca-file and --client-cert-auth exist exactly when the         *)
(* client-trusted-CA secret reference is non-empty; no secret volume has   *)
(* an empty secret name; peer "p", server "s" and client CA "c" give the   *)
(* volumes data, peer-ca, peer-cert, server-cert, client-ca.               *)
C6_ClientCAGating ==
    base # Nil =>
        /\ "client-trusted-ca-certificate" \in Range(Names(BaseVolumes)) <=> ClientCAGiven
        /\ "client-trusted-ca-certificate" \in Range(Names(BaseMounts)) <=> ClientCAGiven
        /\ HasFlag(ArgsTail, "--trusted-ca-file") <=> ClientCAGiven
        /\ HasFlag(ArgsTail, "--client-cert-auth") <=> ClientCAGiven
        /\ \A i \in DOMAIN BaseVolumes :
              BaseVolumes[i].source.kind = "Secret" => BaseVolumes[i].source.ref # ""
        /\ (PeerSecretGiven /\ ServerSecretGiven /\ ClientCAGiven) =>
              Names(BaseVolumes) = <<"data", "peer-trusted-ca-certificate", "peer-certificate",
                                     "server-certificate", "client-trusted-ca-certificate">>

NoStorageGiven ==
    /\ cluster.storage.emptyDir = Nil
    /\ cluster.storage.volumeClaimTemplate = ZeroVolumeClaimTemplate

(* C7: a pass on a storage policy with neither the ephemeral directive nor *)
(* a claim template ends in an error without the reconcile step being      *)
(* called; with the ephemeral directive the manifest has no volume-claim   *)
(* template.                                                               *)
C7_InvalidStorageFails ==
    /\ (err # "idle" /\ NoStorageGiven) => (err # "nil" /\ ~ReconcileCalled)
    /\ (sts # Nil /\ cluster.storage.emptyDir # Nil) => sts[1].volumeClaimTemplates = <<>>

(* C8: a pass leaves the EtcdCluster it was given as it was.               *)
C8_IntentUnchanged ==
    [][err' # "idle" => cluster' = cluster]_vars

ProbeShape(p) == [handler |-> p.handler, port |-> p.port, periodSeconds |-> p.periodSeconds]

C10_TemplateMatchesSelector ==
    sts # Nil =>
        \A k \in DOMAIN sts[1].selector.matchLabels :
            /\ k \in DOMAIN sts[1].template.labels
            /\ sts[1].template.labels[k] = sts[1].selector.matchLabels[k]

====
